---- MODULE Spec2Model ----
(***************************************************************************)
(* Offline map-tile acquisition of petertudorwc/LLM_Planner.               *)
(*                                                                         *)
(* The repository holds four copies of the tile downloader:                *)
(*   "stream"     mapping-service/src/main.py: download_single_tile and    *)
(*                stream_tile_download (GET /tiles/download, SSE)          *)
(*   "background" mapping-service/src/tile_downloader.py: TileDownloader   *)
(*                (POST /tiles/download, a FastAPI background task)        *)
(*   "uk"         scripts/download_uk_base.py                              *)
(*   "abingdon"   scripts/download_abingdon_tiles.py                       *)
(* One job (one variant over one area) runs against a shared tile store;   *)
(* the same job may be run again over the store left behind.  SpecConn     *)
(* adds the caller of the service's endpoints (disconnecting, or not       *)
(* reading the stream), SpecJobs a second streaming request over a tile of *)
(* the first.                                                              *)
(* A file is modelled by its length in bytes: every length stands for one  *)
(* byte string, so equal lengths mean equal bytes.                          *)
(***************************************************************************)
EXTENDS Integers, Sequences, FiniteSets, TLC

VARIABLES
    store,      \* the tile directory: key -> length of the file, or Missing
    job,        \* the job's inputs: variant, layers, zooms, bounds, flag
    run,        \* number of runs of the job started so far
    pc,         \* position of the job's coroutine
    pi,         \* index of the current (layer, zoom) pass
    ti,         \* index of the current tile in the pass (1-based)
    stats,      \* the orchestrator's counters
    results,    \* what the per-tile download returned, in completion order
    events,     \* the SSE events yielded so far (stream only)
    fetches,    \* per key: HTTP requests issued during this run
    inflight,   \* the HTTP requests issued and not yet answered
    batch,      \* background: tile index -> what its finished task returned
    sinceFetch, \* seconds since the job last issued a request (capped)
    prevClean,  \* TRUE when the previous run fetched every tile with Success
    conn,       \* the caller's connection to the job's endpoint
    reader,     \* the consumer of the event stream: reading or not
    rival,      \* a second streaming request over one tile of the same area
    tiling,     \* one call of a tile enumeration: its area, zoom and result
    active_connections, \* WebSocketManager: client_id -> registered websocket
    websockets  \* the gateway's websockets: state and client_id of each

vars == <<store, job, run, pc, pi, ti, stats, results, events, fetches,
          inflight, batch, sinceFetch, prevClean, conn, reader, rival,
          tiling, active_connections, websockets>>

(* The tile arithmetic and the gateway's websockets: no download step      *)
(* touches them.                                                           *)
aside == <<tiling, active_connections, websockets>>

(* The caller's side and the second request: the download loops leave them *)
(* alone.                                                                  *)
side == <<conn, reader, rival, aside>>

-----------------------------------------------------------------------------
(* Program constants *)

BLOCKED_TILE_SIZE == 7412
STREAM_MIN_DELAY == 1
STREAM_MAX_DELAY == 2
SCRIPT_MIN_DELAY == 3
SCRIPT_MAX_DELAY == 5
BATCH_SLEEP == 1
MAX_CONCURRENT == 10

(* Bounds of the model *)

MaxTiles == 2    \* tiles a job request may cover (layers x zooms x grid)
MaxRuns == 2     \* runs of the job over the same store
SendWindow == 1  \* events the transport takes while the consumer is not reading

Missing == -1

Variants == {"stream", "background", "uk", "abingdon"}
TILE_SOURCES == <<"osm", "satellite">>
KnownLayers == {"osm", "satellite"}
ZoomLevels == {1, 2}
TileXs == 0 .. 1
TileYs == 0 .. 1
AllKeys == KnownLayers \X ZoomLevels \X TileXs \X TileYs

LayerLists ==
    {<<"osm">>, <<"satellite">>, <<"terrain">>,
     <<"osm", "satellite">>, <<"osm", "osm">>, <<"osm", "satellite", "osm">>}
ZoomLists == {<<1>>, <<1, 2>>}
ConcurrencyChoices == {MAX_CONCURRENT}

(* Bodies a tile server answers a 200 with, by length. *)
BodySizes == {BLOCKED_TILE_SIZE - 1, BLOCKED_TILE_SIZE, BLOCKED_TILE_SIZE + 1}

(* What one GET ends in. *)
Responses ==
    [kind : {"ok"}, size : BodySizes]
        \cup {[kind |-> k, size |-> 0] : k \in {"status", "timeout", "exception"}}

(* What open()/write() of the tile file ends in. *)
DiskFaults == {"none", "open", "write"}

StatNames == {"success", "skipped", "blocked", "failed", "timeout", "error",
              "total_downloaded", "total_blocked"}
ZeroStats == [n \in StatNames |-> 0]

NoSize == -2

-----------------------------------------------------------------------------
(* Tile enumeration and loop order *)

Min(a, b) == IF a <= b THEN a ELSE b

(* The tiles listed from the last column to the first. *)
get_tiles_descending(min_x, max_x, min_y, max_y) ==
    LET h == max_y - min_y + 1
        n == (max_x - min_x + 1) * h
    IN  [i \in 1 .. n |-> <<max_x - ((i - 1) \div h), min_y + ((i - 1) % h)>>]

(* The double loop "for x in range(min_x, max_x + 1): for y in             *)
(* range(min_y, max_y + 1): tiles.append((x, y))" shared by all variants.  *)
get_tiles(min_x, max_x, min_y, max_y) ==
    LET h == max_y - min_y + 1
        n == (max_x - min_x + 1) * h
    IN  [i \in 1 .. n |-> <<min_x + ((i - 1) \div h), min_y + ((i - 1) % h)>>]

Tiles(j) == get_tiles(0, j.max_x, 0, j.max_y)

(* download_tiles passes area_name, bounds and zoom_levels on and drops    *)
(* request.layers: download_tiles_for_area walks TILE_SOURCES.             *)
download_tiles_for_area_layers(j) == TILE_SOURCES

JobLayers(j) ==
    IF j.variant = "background" THEN download_tiles_for_area_layers(j)
    ELSE j.layers

(* stream and background: for layer: for zoom.  The scripts: for zoom: for *)
(* layer.  The result is the sequence of (layer, zoom) passes of the job.  *)
LayerMajor(layers, zooms) ==
    LET z == Len(zooms)
    IN  [i \in 1 .. Len(layers) * z |->
            <<layers[((i - 1) \div z) + 1], zooms[((i - 1) % z) + 1]>>]

ZoomMajor(layers, zooms) ==
    LET l == Len(layers)
    IN  [i \in 1 .. l * Len(zooms) |->
            <<layers[((i - 1) % l) + 1], zooms[((i - 1) \div l) + 1]>>]

Passes(j) ==
    IF j.variant \in {"stream", "background"}
    THEN LayerMajor(JobLayers(j), j.zooms)
    ELSE ZoomMajor(JobLayers(j), j.zooms)

KeyAt(j, p, t) ==
    <<Passes(j)[p][1], Passes(j)[p][2], Tiles(j)[t][1], Tiles(j)[t][2]>>

JobKeys(j) ==
    {KeyAt(j, p, t) : p \in 1 .. Len(Passes(j)), t \in 1 .. Len(Tiles(j))}

RequestTiles(j) == Len(j.layers) * Len(j.zooms) * Len(Tiles(j))

(* The scripts hard-code their layers (osm, satellite); the model runs     *)
(* them over a sub-list of that pair.  Only the streaming endpoint takes   *)
(* its layer names from the caller.                                        *)
LayersAllowed(v, layers) ==
    CASE v = "stream" -> TRUE
      [] v = "background" -> layers \in {<<"osm">>, <<"osm", "satellite">>}
      [] OTHER -> layers \in {<<"osm">>, <<"satellite">>, <<"osm", "satellite">>}

JobInputs ==
    {j \in [variant : Variants, layers : LayerLists, zooms : ZoomLists,
            max_x : TileXs, max_y : TileYs,
            max_concurrent : ConcurrencyChoices, redownload : BOOLEAN] :
        /\ RequestTiles(j) <= MaxTiles
        /\ LayersAllowed(j.variant, j.layers)
        /\ j.variant # "background" => j.max_concurrent = MAX_CONCURRENT}

-----------------------------------------------------------------------------
(* Tile Store *)

(* classify(key) of the spec, as the exact-size test the code makes. *)
Classify(sz) ==
    IF sz = Missing THEN "Missing"
    ELSE IF sz = BLOCKED_TILE_SIZE THEN "Blocked"
    ELSE "Good"

Stored(key) == IF key \in AllKeys THEN store[key] ELSE Missing

(* "with open(tile_path, 'wb') as f: f.write(content)": the file as it is  *)
(* left and whether an exception was raised.  open() failing leaves the    *)
(* file alone; a write failing after open() truncated the file leaves a    *)
(* strict prefix of the content, modelled by the empty file.               *)
WriteFile(old, size, fault) ==
    CASE fault = "none" -> [raised |-> FALSE, file |-> size]
      [] fault = "open" -> [raised |-> TRUE, file |-> old]
      [] OTHER -> [raised |-> TRUE, file |-> 0]

-----------------------------------------------------------------------------
(* The check each variant makes before fetching: the status it returns     *)
(* without fetching, or "fetch".                                           *)

(* "Already good" decided by a size threshold (files above 10 KB). *)
StreamExistingThreshold(sz, redownload) ==
    IF sz # Missing /\ sz > 10240 THEN "skipped" ELSE "fetch"

(* main.py download_single_tile: it has no redownload parameter. *)
StreamExisting(sz, redownload) ==
    IF sz # Missing
    THEN IF sz = BLOCKED_TILE_SIZE THEN "blocked" ELSE "skipped"
    ELSE "fetch"

(* The redownload flag taken to cover every stored tile. *)
UkExistingRefetchAll(sz, redownload) ==
    IF sz # Missing /\ ~redownload
    THEN IF sz = BLOCKED_TILE_SIZE THEN "blocked" ELSE "skipped"
    ELSE "fetch"

(* download_uk_base.py download_tile *)
UkExisting(sz, redownload) ==
    IF sz # Missing
    THEN IF sz = BLOCKED_TILE_SIZE
         THEN IF redownload THEN "fetch" ELSE "blocked"
         ELSE "skipped"
    ELSE "fetch"

(* download_abingdon_tiles.py download_tile: returns True or False *)
AbingdonExisting(sz, redownload) ==
    IF sz # Missing
    THEN LET is_blocked == (sz = BLOCKED_TILE_SIZE)
         IN  IF is_blocked /\ redownload THEN "fetch"
             ELSE IF ~is_blocked THEN "True"
             ELSE "False"
    ELSE "fetch"

(* tile_downloader.py TileDownloader.download_tile: any file counts *)
BackgroundExisting(sz, redownload) ==
    IF sz # Missing THEN "True" ELSE "fetch"

Existing(v, sz, redownload) ==
    CASE v = "stream" -> StreamExisting(sz, redownload)
      [] v = "uk" -> UkExisting(sz, redownload)
      [] v = "abingdon" -> AbingdonExisting(sz, redownload)
      [] OTHER -> BackgroundExisting(sz, redownload)

-----------------------------------------------------------------------------
(* What each variant makes of the answer to its GET: the status returned   *)
(* and the file left behind (old: the file before the request).            *)

StreamFetched(old, r, fault) ==
    CASE r.kind = "status" -> [status |-> "failed", file |-> old]
      [] r.kind = "timeout" -> [status |-> "timeout", file |-> old]
      [] r.kind = "exception" -> [status |-> "error", file |-> old]
      [] OTHER ->
            LET w == WriteFile(old, r.size, fault)
            IN  IF w.raised THEN [status |-> "error", file |-> w.file]
                ELSE IF r.size = BLOCKED_TILE_SIZE
                     THEN [status |-> "blocked", file |-> w.file]
                     ELSE [status |-> "success", file |-> w.file]

UkFetched(old, r, fault) ==
    CASE r.kind = "status" -> [status |-> "failed", file |-> old]
      [] r.kind = "timeout" -> [status |-> "timeout", file |-> old]
      [] r.kind = "exception" -> [status |-> "error", file |-> old]
      [] OTHER ->
            LET w == WriteFile(old, r.size, fault)
            IN  IF w.raised THEN [status |-> "error", file |-> w.file]
                ELSE IF r.size = BLOCKED_TILE_SIZE
                     THEN [status |-> "blocked", file |-> w.file]
                     ELSE [status |-> "success", file |-> w.file]

AbingdonFetched(old, r, fault) ==
    IF r.kind = "ok"
    THEN LET w == WriteFile(old, r.size, fault)
         IN  IF w.raised THEN [status |-> "False", file |-> w.file]
             ELSE IF r.size = BLOCKED_TILE_SIZE
                  THEN [status |-> "False", file |-> w.file]
                  ELSE [status |-> "True", file |-> w.file]
    ELSE [status |-> "False", file |-> old]

(* No size test: every 200 is written and reported True. *)
BackgroundFetched(old, r, fault) ==
    IF r.kind = "ok"
    THEN LET w == WriteFile(old, r.size, fault)
         IN  IF w.raised THEN [status |-> "False", file |-> w.file]
             ELSE [status |-> "True", file |-> w.file]
    ELSE [status |-> "False", file |-> old]

Fetched(v, old, r, fault) ==
    CASE v = "stream" -> StreamFetched(old, r, fault)
      [] v = "uk" -> UkFetched(old, r, fault)
      [] v = "abingdon" -> AbingdonFetched(old, r, fault)
      [] OTHER -> BackgroundFetched(old, r, fault)

(* The URL is built only for the layers the code knows. *)
KnownLayer(layer) == layer \in KnownLayers

-----------------------------------------------------------------------------
(* Delays *)

Delays(v) ==
    IF v = "stream" THEN STREAM_MIN_DELAY .. STREAM_MAX_DELAY
    ELSE SCRIPT_MIN_DELAY .. SCRIPT_MAX_DELAY

(* minDelay of the job: the scripts' own constant; the service's constant  *)
(* for both download paths of the service.                                 *)
MinDelay(v) ==
    IF v \in {"uk", "abingdon"} THEN SCRIPT_MIN_DELAY ELSE STREAM_MIN_DELAY

LongAgo == SCRIPT_MAX_DELAY

Elapse(t, d) == Min(t + d, LongAgo)

-----------------------------------------------------------------------------
(* The orchestrator loops *)

Sequential == {"stream", "uk", "abingdon"}

CurKey == KeyAt(job, pi, ti)
LastTile == ti = Len(Tiles(job))
LastPass == pi = Len(Passes(job))

(* stats[result["status"]] += 1 (stream, uk); the abingdon loop counts     *)
(* True into total_downloaded and False into total_blocked; the background *)
(* loop keeps no counters.                                                 *)
(* The counters with a skipped tile left uncounted. *)
UpdateStatsSkipUncounted(v, st, status) ==
    IF status = "skipped" THEN st ELSE
    CASE v \in {"stream", "uk"} -> [st EXCEPT ![status] = @ + 1]
      [] v = "abingdon" ->
            IF status = "True"
            THEN [st EXCEPT !["total_downloaded"] = @ + 1]
            ELSE [st EXCEPT !["total_blocked"] = @ + 1]
      [] OTHER -> st

UpdateStats(v, st, status) ==
    CASE v \in {"stream", "uk"} -> [st EXCEPT ![status] = @ + 1]
      [] v = "abingdon" ->
            IF status = "True"
            THEN [st EXCEPT !["total_downloaded"] = @ + 1]
            ELSE [st EXCEPT !["total_blocked"] = @ + 1]
      [] OTHER -> st

(* stream and uk build a fresh stats dict for every (layer, zoom) pass. *)
PassStats == IF ti = 1 /\ job.variant \in {"stream", "uk"} THEN ZeroStats ELSE stats

(* What the per-tile download returned (key, status, size), with three     *)
(* observations of the attempt a test harness would make: whether a GET    *)
(* was issued, the length of the body written in full (NoSize when none    *)
(* was), and whether open() or write() raised.                             *)
Result(key, status, size, fetched, wrote, fault) ==
    [key |-> key, status |-> status, size |-> size, fetched |-> fetched,
     wrote |-> wrote, fault |-> fault]

ProgressEvent(rec, st) ==
    [type |-> "progress", layer |-> rec.key[1], zoom |-> rec.key[2],
     tile_x |-> rec.key[3], tile_y |-> rec.key[4], status |-> rec.status,
     size |-> rec.size, completed |-> ti, total_tiles |-> Len(Tiles(job)),
     stats |-> st]

MarkEvent(type, key, st) ==
    [type |-> type, layer |-> key[1], zoom |-> key[2], tile_x |-> NoSize,
     tile_y |-> NoSize, status |-> "", size |-> NoSize, completed |-> 0,
     total_tiles |-> 0, stats |-> st]

(* The caller's connection.  state: "open"; "lost" when the caller is gone *)
(* and the server has not yet tried to send to it; "closed" when the       *)
(* server has cancelled the response.  at, mid: how many tiles had         *)
(* returned and whether a tile was in progress when the caller went away.  *)
OpenConn == [state |-> "open", at |-> 0, mid |-> FALSE]

(* The consumer of the stream; mark: the events yielded when it stopped. *)
Reading == [reading |-> TRUE, mark |-> 0]

NoRival == [pc |-> "idle", key |-> <<>>, status |-> "", fetched |-> FALSE,
            wrote |-> NoSize]

(* "await send(chunk)" of the last event yielded has returned: the         *)
(* generator is resumed (__anext__) only then.  A consumer that does not   *)
(* read leaves room for SendWindow more events in the transport.           *)
SendReturned == reader.reading \/ Len(events) - reader.mark <= SendWindow

(* The send of the event just yielded fails: the caller is gone. *)
SendFails == conn.state = "lost"

(* The loop left at the first tile that was not fetched or skipped. *)
AfterTileStopOnFailure(rec) ==
    IF (LastTile /\ LastPass) \/ rec.status \in {"failed", "timeout", "error", "blocked", "False"}
    THEN "done"
    ELSE "loop"

(* Where the tile loop goes after a tile, whatever the tile's result. *)
AfterTile(rec) ==
    IF SendFails THEN "cancelled"
    ELSE IF LastTile /\ LastPass THEN "done" ELSE "loop"

(* The tail of one iteration of the sequential tile loop: count, yield the *)
(* progress event, step to the next tile, pass or the end of the job.      *)
(* A failed tile is asked for again until it succeeds. *)
CompleteRetrying(rec) ==
    IF rec.status \in {"failed", "timeout", "error"}
    THEN /\ pc' = "loop"
         /\ UNCHANGED <<stats, results, events, ti, pi>>
    ELSE
    LET st == UpdateStats(job.variant, PassStats, rec.status)
        ev1 == Append(events, ProgressEvent(rec, st))
        ev2 == IF LastTile /\ ~SendFails
               THEN Append(ev1, MarkEvent("layer_complete", rec.key, st))
               ELSE ev1
        ev3 == IF LastTile /\ LastPass /\ ~SendFails
               THEN Append(ev2, MarkEvent("complete", rec.key, ZeroStats))
               ELSE ev2
    IN  /\ stats' = st
        /\ results' = Append(results, rec)
        /\ events' = IF job.variant = "stream" THEN ev3 ELSE events
        /\ ti' = IF LastTile THEN 1 ELSE ti + 1
        /\ pi' = IF LastTile THEN pi + 1 ELSE pi
        /\ pc' = AfterTile(rec)

Complete(rec) ==
    LET st == UpdateStats(job.variant, PassStats, rec.status)
        ev1 == Append(events, ProgressEvent(rec, st))
        ev2 == IF LastTile /\ ~SendFails
               THEN Append(ev1, MarkEvent("layer_complete", rec.key, st))
               ELSE ev1
        ev3 == IF LastTile /\ LastPass /\ ~SendFails
               THEN Append(ev2, MarkEvent("complete", rec.key, ZeroStats))
               ELSE ev2
    IN  /\ stats' = st
        /\ results' = Append(results, rec)
        /\ events' = IF job.variant = "stream" THEN ev3 ELSE events
        /\ ti' = IF LastTile THEN 1 ELSE ti + 1
        /\ pi' = IF LastTile THEN pi + 1 ELSE pi
        /\ pc' = AfterTile(rec)

CleanResult(rec) ==
    rec.fetched /\ rec.wrote # NoSize /\ rec.wrote # BLOCKED_TILE_SIZE

(* A caller submits the job (again). *)
StartJob(rd) ==
    /\ pc \in {"idle", "done", "cancelled"}
    /\ run < MaxRuns
    /\ run' = run + 1
    /\ job' = [job EXCEPT !.redownload = rd]
    /\ prevClean' = (pc = "done" /\ \A i \in 1 .. Len(results) : CleanResult(results[i]))
    /\ pc' = "loop"
    /\ pi' = 1
    /\ ti' = 1
    /\ stats' = ZeroStats
    /\ results' = <<>>
    /\ events' = <<>>
    /\ fetches' = [k \in AllKeys |-> 0]
    /\ inflight' = {}
    /\ batch' = <<>>
    /\ sinceFetch' = LongAgo
    /\ conn' = OpenConn
    /\ reader' = Reading
    /\ UNCHANGED <<store, rival, aside>>

(* download_single_tile / download_tile up to its first await. *)
TileStart ==
    /\ pc = "loop"
    /\ job.variant \in Sequential
    /\ job.variant = "stream" => SendReturned
    /\ LET sz == Stored(CurKey)
           st == Existing(job.variant, sz, job.redownload)
       IN  IF st # "fetch"
           THEN /\ Complete(Result(CurKey, st,
                        IF job.variant \in {"stream", "uk"} THEN sz ELSE NoSize,
                        FALSE, NoSize, FALSE))
                /\ UNCHANGED <<store, job, run, fetches, inflight, batch, sinceFetch,
                               prevClean, side>>
           ELSE /\ pc' = "sleep"
                /\ stats' = PassStats
                /\ UNCHANGED <<store, job, run, pi, ti, results, events, fetches,
                               inflight, batch, sinceFetch, prevClean, side>>

(* await asyncio.sleep(delay) ends; the URL is built and the GET issued. *)
SleepDone(d) ==
    /\ pc = "sleep"
    /\ d \in Delays(job.variant)
    /\ IF KnownLayer(CurKey[1])
       THEN /\ inflight' = {[key |-> CurKey, idx |-> ti, delay |-> d,
                            gap |-> Elapse(sinceFetch, d)]}
            /\ fetches' = [fetches EXCEPT ![CurKey] = @ + 1]
            /\ sinceFetch' = 0
            /\ pc' = "get"
            /\ UNCHANGED <<store, job, run, pi, ti, stats, results, events, batch,
                           prevClean, side>>
       ELSE /\ Complete(Result(CurKey, "error", NoSize, FALSE, NoSize, FALSE))
            /\ sinceFetch' = Elapse(sinceFetch, d)
            /\ UNCHANGED <<store, job, run, fetches, inflight, batch, prevClean, side>>

Wrote(r, fault) == IF r.kind = "ok" /\ fault = "none" THEN r.size ELSE NoSize

FaultsFor(r) == IF r.kind = "ok" THEN DiskFaults ELSE {"none"}

(* The GET of the sequential loop is answered (or times out, or raises). *)
Response(r, fault) ==
    /\ pc = "get"
    /\ job.variant \in Sequential
    /\ r \in Responses
    /\ fault \in FaultsFor(r)
    /\ LET out == Fetched(job.variant, Stored(CurKey), r, fault)
           size == IF out.status \in {"success", "blocked"} THEN r.size ELSE NoSize
       IN  /\ store' = [store EXCEPT ![CurKey] = out.file]
           /\ Complete(Result(CurKey, out.status, size, TRUE, Wrote(r, fault),
                               fault # "none"))
    /\ inflight' = {}
    /\ UNCHANGED <<job, run, fetches, batch, sinceFetch, prevClean, side>>

-----------------------------------------------------------------------------
(* The background downloader: TileDownloader.download_area *)

(* Tasks are collected until len(tasks) >= max_concurrent or the last tile *)
(* of the zoom level: the batch that starts at tile ti ends here.          *)
(* A batch is awaited once it holds more than max_concurrent tasks. *)
BatchEndOneMore == Min(ti + job.max_concurrent, Len(Tiles(job)))

BatchEnd == Min(ti + job.max_concurrent - 1, Len(Tiles(job)))

(* asyncio.gather over the tasks: every task of the batch runs to its first await *)
(* before any answer is handled: a task whose file exists returns True at  *)
(* once, every other task issues its GET.                                  *)
BatchLaunch ==
    /\ pc = "loop"
    /\ job.variant = "background"
    /\ LET Fetch(i) == Existing(job.variant, Stored(KeyAt(job, pi, i)), job.redownload) = "fetch"
           toFetch == {i \in ti .. BatchEnd : Fetch(i)}
           first == CHOOSE i \in toFetch : \A k \in toFetch : i <= k
       IN  /\ inflight' = {[key |-> KeyAt(job, pi, i), idx |-> i, delay |-> 0,
                            gap |-> IF i = first THEN sinceFetch ELSE 0] : i \in toFetch}
           /\ fetches' = [k \in AllKeys |->
                            IF \E i \in toFetch : k = KeyAt(job, pi, i)
                            THEN fetches[k] + 1 ELSE fetches[k]]
           /\ batch' = [i \in (ti .. BatchEnd) \ toFetch |->
                            Result(KeyAt(job, pi, i), "True", NoSize, FALSE, NoSize, FALSE)]
           /\ sinceFetch' = IF toFetch # {} THEN 0 ELSE sinceFetch
    /\ pc' = "gather"
    /\ UNCHANGED <<store, job, run, pi, ti, stats, results, events, prevClean, side>>

(* One GET of the batch is answered; the answers come in any order. *)
BatchResponse(req, r, fault) ==
    /\ pc = "gather"
    /\ req \in inflight
    /\ r \in Responses
    /\ fault \in FaultsFor(r)
    /\ LET out == Fetched(job.variant, Stored(req.key), r, fault)
       IN  /\ store' = [store EXCEPT ![req.key] = out.file]
           /\ batch' = [i \in DOMAIN batch \cup {req.idx} |->
                            IF i = req.idx
                            THEN Result(req.key, out.status, NoSize, TRUE,
                                        Wrote(r, fault), fault # "none")
                            ELSE batch[i]]
    /\ inflight' = inflight \ {req}
    /\ UNCHANGED <<job, run, pc, pi, ti, stats, results, events, fetches, sinceFetch,
                   prevClean, side>>

(* gather returns the results in task order; "await asyncio.sleep(1)"; the *)
(* loop goes on.                                                           *)
BatchDone ==
    /\ pc = "gather"
    /\ inflight = {}
    /\ results' = results \o [n \in 1 .. (BatchEnd - ti + 1) |-> batch[ti + n - 1]]
    /\ batch' = <<>>
    /\ sinceFetch' = Elapse(sinceFetch, BATCH_SLEEP)
    /\ LET lastBatch == BatchEnd = Len(Tiles(job))
       IN  /\ ti' = IF lastBatch THEN 1 ELSE BatchEnd + 1
           /\ pi' = IF lastBatch THEN pi + 1 ELSE pi
           /\ pc' = IF lastBatch /\ LastPass THEN "done" ELSE "loop"
    /\ UNCHANGED <<store, job, run, stats, events, fetches, inflight, prevClean, side>>

-----------------------------------------------------------------------------
(* Tile arithmetic.  A position is a point of the Web-Mercator plane, the  *)
(* square the tile pyramid divides: px grows east from longitude -180 and  *)
(* py grows south from latitude +85.05, both running over 0 .. World       *)
(* inside the square.  At zoom level zoom the square is TilesAcross(zoom) tiles wide *)
(* and high.  A radius is a length of the same plane: the service's        *)
(* radius_lat and radius_lon are the two half sides of the square box      *)
(* around the centre.                                                      *)

(* Largest radius of an area, in units of the plane. *)
MaxRadius == 3

MaxZoom == CHOOSE z \in ZoomLevels : \A w \in ZoomLevels : w <= z

TilesAcross(zoom) == 2 ^ zoom

(* Side of the plane: half a tile of the deepest zoom level is one unit. *)
World == 2 * TilesAcross(MaxZoom)

Positions == 0 .. World

(* Python's int() of the quotient num / den: rounds towards zero. *)
ToInt(num, den) == IF num >= 0 THEN num \div den ELSE -((-num) \div den)

Min4(a, b, c, d) == Min(Min(a, b), Min(c, d))

Max(a, b) == IF a >= b THEN a ELSE b

Max4(a, b, c, d) == Max(Max(a, b), Max(c, d))

(* The tile holding a position: the fraction of the plane times n, cut to  *)
(* an integer.  Nothing clamps the result to 0 .. n - 1.                   *)
lat_lon_to_tile_coords(py, px, zoom) ==
    <<ToInt(px * TilesAcross(zoom), World), ToInt(py * TilesAcross(zoom), World)>>

(* The position of the point (x + 0.5, y + 0.5) of the tile grid. *)
tile_to_lat_lon(x, y, zoom) ==
    <<((2 * x + 1) * World) \div (2 * TilesAcross(zoom)), ((2 * y + 1) * World) \div (2 * TilesAcross(zoom))>>

DistanceSq(p, q) == (p[1] - q[1]) * (p[1] - q[1]) + (p[2] - q[2]) * (p[2] - q[2])

(* The tile's centre lies no further than radius from the area's centre. *)
WithinRadius(tile, py, px, radius, zoom) ==
    DistanceSq(tile_to_lat_lon(tile[1], tile[2], zoom), <<px, py>>) <= radius * radius

(* The service: every tile of the box spanned by the four corners. *)
get_tiles_in_radius(py, px, radius, zoom) ==
    LET north == py - radius
        south == py + radius
        east == px + radius
        west == px - radius
        nw == lat_lon_to_tile_coords(north, west, zoom)
        ne == lat_lon_to_tile_coords(north, east, zoom)
        sw == lat_lon_to_tile_coords(south, west, zoom)
        se == lat_lon_to_tile_coords(south, east, zoom)
    IN  get_tiles(Min4(nw[1], ne[1], sw[1], se[1]), Max4(nw[1], ne[1], sw[1], se[1]),
                  Min4(nw[2], ne[2], sw[2], se[2]), Max4(nw[2], ne[2], sw[2], se[2]))

(* The Abingdon script: the tiles of the box whose centre is in the circle. *)
abingdon_get_tiles_in_radius(py, px, radius, zoom) ==
    LET lo == lat_lon_to_tile_coords(py + radius, px - radius, zoom)
        hi == lat_lon_to_tile_coords(py - radius, px + radius, zoom)
        InCircle(tile) == WithinRadius(tile, py, px, radius, zoom)
    IN  SelectSeq(get_tiles(lo[1], hi[1], hi[2], lo[2]), InCircle)

(* The background downloader: every tile of the box of two corners. *)
get_tile_bounds(py1, px1, py2, px2, zoom) ==
    LET c1 == lat_lon_to_tile_coords(py1, px1, zoom)
        c2 == lat_lon_to_tile_coords(py2, px2, zoom)
    IN  get_tiles(Min(c1[1], c2[1]), Max(c1[1], c2[1]),
                  Min(c1[2], c2[2]), Max(c1[2], c2[2]))

(* The areas and zoom levels a tile enumeration is called with. *)
TilingInputs ==
    [by : {"none"}, zoom : ZoomLevels, py : Positions, px : Positions,
     radius : 0 .. MaxRadius, py2 : {0}, px2 : {0}, tiles : {<<>>}]

NoTiling ==
    [by |-> "none", zoom |-> MaxZoom, py |-> 0, px |-> 0, radius |-> 0,
     py2 |-> 0, px2 |-> 0, tiles |-> <<>>]

-----------------------------------------------------------------------------
(* The gateway's WebSocketManager.  active_connections is a dict keyed by  *)
(* client_id; None stands for a key the dict does not hold.                *)

(* Websockets the gateway is offered. *)
MaxSockets == 3

WebSockets == 1 .. MaxSockets

ClientIds == {"a", "b"}

None == 0

NoConnections == [c \in ClientIds |-> None]

NoWebSockets == [s \in WebSockets |-> [state |-> "new", client_id |-> ""]]

-----------------------------------------------------------------------------

(* Nothing has been asked of the service yet. *)
Idle ==
    /\ store = [k \in AllKeys |-> Missing]
    /\ run = 0
    /\ pc = "idle"
    /\ pi = 1
    /\ ti = 1
    /\ stats = ZeroStats
    /\ results = <<>>
    /\ events = <<>>
    /\ fetches = [k \in AllKeys |-> 0]
    /\ inflight = {}
    /\ batch = <<>>
    /\ sinceFetch = LongAgo
    /\ prevClean = FALSE
    /\ conn = OpenConn
    /\ reader = Reading
    /\ rival = NoRival

Init ==
    /\ Idle
    /\ job \in {j \in JobInputs : ~j.redownload}
    /\ tiling = NoTiling
    /\ active_connections = NoConnections
    /\ websockets = NoWebSockets

Next ==
    \/ \E rd \in BOOLEAN : StartJob(rd)
    \/ TileStart
    \/ \E d \in STREAM_MIN_DELAY .. SCRIPT_MAX_DELAY : SleepDone(d)
    \/ \E r \in Responses, fault \in DiskFaults : Response(r, fault)
    \/ BatchLaunch
    \/ \E req \in inflight, r \in Responses, fault \in DiskFaults : BatchResponse(req, r, fault)
    \/ BatchDone

Spec == Init /\ [][Next]_vars

-----------------------------------------------------------------------------
(* The caller of the service's two endpoints.  GET /tiles/download returns *)
(* a StreamingResponse over the generator stream_tile_download: the        *)
(* generator runs only while the response is being sent.  POST             *)
(* /tiles/download answers at once and runs the job as a background task.  *)

(* A coroutine that has returned taken for one that can still be cancelled. *)
CancellableOrDone(p) == p \in {"loop", "sleep", "get", "gather", "done"}

(* The job's coroutine has been started and has not returned. *)
Cancellable(p) == p \in {"loop", "sleep", "get", "gather"}

(* How the server learns that the caller is gone: the response task is     *)
(* cancelled at the await it stands on ("cancel"), or the next send of an  *)
(* event raises ("send_error").  Which one depends on the ASGI server and  *)
(* framework version the service is deployed on.                           *)
DisconnectModes == {"cancel", "send_error"}

(* The connection is marked closed and the job is left running. *)
DisconnectIgnored(mode) ==
    /\ job.variant \in {"stream", "background"}
    /\ conn.state = "open"
    /\ Cancellable(pc)
    /\ mode \in DisconnectModes
    /\ conn' = [state |-> "closed", at |-> Len(results), mid |-> pc \in {"sleep", "get"}]
    /\ UNCHANGED <<store, job, run, pc, pi, ti, stats, results, events, fetches,
                   inflight, batch, sinceFetch, prevClean, reader, rival, aside>>

(* The caller goes away.  A streamed job standing at a yield is never      *)
(* resumed; one standing in its sleep or its GET is cancelled there, the   *)
(* request abandoned, or runs on to its next yield, where the send fails   *)
(* and the generator is closed.  A background job is not touched.          *)
Disconnect(mode) ==
    /\ job.variant \in {"stream", "background"}
    /\ conn.state = "open"
    /\ Cancellable(pc)
    /\ mode \in DisconnectModes
    /\ LET midTile == pc \in {"sleep", "get"}
           unseen == job.variant = "stream" /\ mode = "send_error" /\ midTile
       IN  /\ conn' = [state |-> IF unseen THEN "lost" ELSE "closed",
                       at |-> Len(results), mid |-> midTile]
           /\ IF job.variant = "stream" /\ ~unseen
              THEN /\ pc' = "cancelled"
                   /\ inflight' = {}
              ELSE UNCHANGED <<pc, inflight>>
    /\ UNCHANGED <<store, job, run, pi, ti, stats, results, events, fetches,
                   batch, sinceFetch, prevClean, reader, rival, aside>>

(* The consumer of the stream stops reading (the connection stays open). *)
StopReading ==
    /\ job.variant = "stream"
    /\ Cancellable(pc)
    /\ conn.state = "open"
    /\ reader.reading
    /\ reader' = [reading |-> FALSE, mark |-> Len(events)]
    /\ UNCHANGED <<store, job, run, pc, pi, ti, stats, results, events, fetches,
                   inflight, batch, sinceFetch, prevClean, conn, rival, aside>>

(* The consumer reads again and drains what the transport held. *)
ResumeReading ==
    /\ ~reader.reading
    /\ reader' = Reading
    /\ UNCHANGED <<store, job, run, pc, pi, ti, stats, results, events, fetches,
                   inflight, batch, sinceFetch, prevClean, conn, rival, aside>>

(* The jobs of the service: any streamed job, and the background job of a  *)
(* POST that leaves layers at its default, ["osm", "satellite"].           *)
InitConn ==
    /\ Init
    /\ \/ job.variant = "stream"
       \/ job.variant = "background" /\ job.layers = TILE_SOURCES

NextConn ==
    \/ Next
    \/ \E mode \in DisconnectModes : Disconnect(mode)
    \/ StopReading
    \/ ResumeReading

SpecConn == InitConn /\ [][NextConn]_vars

-----------------------------------------------------------------------------
(* A second GET /tiles/download served by the same process while the first *)
(* job runs: its area holds one tile, a tile of the first job.  Both       *)
(* generators run download_single_tile on one event loop, so they          *)
(* interleave at its awaits (the sleep and the GET) and nowhere else.      *)

(* download_single_tile of the second request, up to its first await. *)
RivalStart(k) ==
    /\ job.variant = "stream"
    /\ rival.pc = "idle"
    /\ k \in JobKeys(job) \cap AllKeys
    /\ LET st == StreamExisting(Stored(k), FALSE)
       IN  rival' = [pc |-> IF st = "fetch" THEN "sleep" ELSE "done", key |-> k,
                     status |-> IF st = "fetch" THEN "" ELSE st,
                     fetched |-> FALSE, wrote |-> NoSize]
    /\ UNCHANGED <<store, job, run, pc, pi, ti, stats, results, events, fetches,
                   inflight, batch, sinceFetch, prevClean, conn, reader, aside>>

(* Its sleep ends and its GET is issued. *)
RivalSleepDone ==
    /\ rival.pc = "sleep"
    /\ rival' = [rival EXCEPT !.pc = "get", !.fetched = TRUE]
    /\ UNCHANGED <<store, job, run, pc, pi, ti, stats, results, events, fetches,
                   inflight, batch, sinceFetch, prevClean, conn, reader, aside>>

(* Its GET is answered. *)
RivalResponse(r, fault) ==
    /\ rival.pc = "get"
    /\ r \in Responses
    /\ fault \in FaultsFor(r)
    /\ LET out == StreamFetched(Stored(rival.key), r, fault)
       IN  /\ store' = [store EXCEPT ![rival.key] = out.file]
           /\ rival' = [rival EXCEPT !.pc = "done", !.status = out.status,
                                     !.wrote = Wrote(r, fault)]
    /\ UNCHANGED <<job, run, pc, pi, ti, stats, results, events, fetches,
                   inflight, batch, sinceFetch, prevClean, conn, reader, aside>>

InitJobs == Init /\ job.variant = "stream"

NextJobs ==
    \/ \E rd \in BOOLEAN : StartJob(rd)
    \/ TileStart
    \/ \E d \in STREAM_MIN_DELAY .. STREAM_MAX_DELAY : SleepDone(d)
    \/ \E r \in Responses, fault \in DiskFaults : Response(r, fault)
    \/ \E k \in AllKeys : RivalStart(k)
    \/ RivalSleepDone
    \/ \E r \in Responses, fault \in DiskFaults : RivalResponse(r, fault)

SpecJobs == InitJobs /\ [][NextJobs]_vars

-----------------------------------------------------------------------------
(* The tile enumerations as functions of their inputs: each is called once *)
(* on an area and a zoom level and its list is kept.                       *)

DownloadIdle ==
    UNCHANGED <<store, job, run, pc, pi, ti, stats, results, events, fetches,
                inflight, batch, sinceFetch, prevClean, conn, reader, rival>>

(* stream_tile_download asks for the tiles of one zoom level. *)
StreamTiles ==
    /\ tiling.by = "none"
    /\ tiling' = [tiling EXCEPT !.by = "stream",
                    !.tiles = get_tiles_in_radius(tiling.py, tiling.px, tiling.radius, tiling.zoom)]
    /\ DownloadIdle
    /\ UNCHANGED <<active_connections, websockets>>

(* download_abingdon_tiles.py asks for the tiles of one zoom level. *)
AbingdonTiles ==
    /\ tiling.by = "none"
    /\ tiling' = [tiling EXCEPT !.by = "abingdon",
                    !.tiles = abingdon_get_tiles_in_radius(tiling.py, tiling.px,
                                                           tiling.radius, tiling.zoom)]
    /\ DownloadIdle
    /\ UNCHANGED <<active_connections, websockets>>

(* download_area asks for the tiles between two corners. *)
BackgroundTiles(py2, px2) ==
    /\ tiling.by = "none"
    /\ py2 \in Positions
    /\ px2 \in Positions
    /\ tiling' = [tiling EXCEPT !.by = "background", !.py2 = py2, !.px2 = px2,
                    !.tiles = get_tile_bounds(tiling.py, tiling.px, py2, px2, tiling.zoom)]
    /\ DownloadIdle
    /\ UNCHANGED <<active_connections, websockets>>

StreamDefaults ==
    CHOOSE j \in JobInputs :
        j.variant = "stream" /\ j.layers = TILE_SOURCES /\ ~j.redownload

InitTiles ==
    /\ Idle
    /\ job = StreamDefaults
    /\ tiling \in TilingInputs
    /\ active_connections = NoConnections
    /\ websockets = NoWebSockets

NextTiles ==
    \/ StreamTiles
    \/ AbingdonTiles
    \/ \E py2 \in Positions, px2 \in Positions : BackgroundTiles(py2, px2)

SpecTiles == InitTiles /\ [][NextTiles]_vars

-----------------------------------------------------------------------------
(* The gateway's /ws/{client_id} endpoint, one coroutine per websocket. *)

(* websocket_endpoint enters connect: the websocket is accepted. *)
Accept(s, c) ==
    /\ websockets[s].state = "new"
    /\ websockets' = [websockets EXCEPT ![s] = [state |-> "accepted", client_id |-> c]]
    /\ DownloadIdle
    /\ UNCHANGED <<tiling, active_connections>>

(* connect resumes after the accept and stores the websocket. *)
Register(s) ==
    /\ websockets[s].state = "accepted"
    /\ active_connections' = [active_connections EXCEPT ![websockets[s].client_id] = s]
    /\ websockets' = [websockets EXCEPT ![s].state = "open"]
    /\ DownloadIdle
    /\ UNCHANGED tiling

(* The peer closes: receive_json raises WebSocketDisconnect and the        *)
(* handler calls disconnect(client_id).                                    *)
WsDisconnect(s) ==
    /\ websockets[s].state = "open"
    /\ active_connections' = [active_connections EXCEPT ![websockets[s].client_id] = None]
    /\ websockets' = [websockets EXCEPT ![s].state = "closed"]
    /\ DownloadIdle
    /\ UNCHANGED tiling

InitWs ==
    /\ Idle
    /\ job = StreamDefaults
    /\ tiling = NoTiling
    /\ active_connections = NoConnections
    /\ websockets = NoWebSockets

NextWs ==
    \/ \E s \in WebSockets, c \in ClientIds : Accept(s, c)
    \/ \E s \in WebSockets : Register(s)
    \/ \E s \in WebSockets : WsDisconnect(s)

SpecWs == InitWs /\ [][NextWs]_vars

-----------------------------------------------------------------------------
(* download_area as a function of the tile count and of max_concurrent:    *)
(* the background job over up to four tiles per zoom level, in batches of  *)
(* one to MaxBatch tiles.  The tile server answers 200 with a tile or with *)
(* an error status.                                                        *)

(* Largest max_concurrent download_area is called with. *)
MaxBatch == 3

BatchJobs ==
    {j \in [variant : {"background"}, layers : {TILE_SOURCES}, zooms : ZoomLists,
            max_x : TileXs, max_y : TileYs,
            max_concurrent : 1 .. MaxBatch, redownload : {FALSE}] :
        Len(j.zooms) * Len(Tiles(j)) <= 2 * MaxTiles}

BatchAnswers == {r \in Responses : r.kind = "status" \/ (r.kind = "ok" /\ r.size < BLOCKED_TILE_SIZE)}

InitBatch ==
    /\ Idle
    /\ job \in BatchJobs
    /\ tiling = NoTiling
    /\ active_connections = NoConnections
    /\ websockets = NoWebSockets

NextBatch ==
    \/ StartJob(FALSE)
    \/ BatchLaunch
    \/ \E req \in inflight, r \in BatchAnswers : BatchResponse(req, r, "none")
    \/ BatchDone

SpecBatch == InitBatch /\ [][NextBatch]_vars

-----------------------------------------------------------------------------
(* Readings of a state shared by the properties below *)

GoodFile(k) == Classify(Stored(k)) = "Good"
BlockedFile(k) == Classify(Stored(k)) = "Blocked"
Iterations == Len(Passes(job)) * Len(Tiles(job))
NoRequests == inflight = {} /\ \A k \in AllKeys : fetches[k] = 0

(* C1: a tile whose stored file is Good (it exists and its size differs    *)
(* from BLOCKED_TILE_SIZE) is never requested and its file is never        *)
(* written by a download job, with redownloadBlocked set or not: no step   *)
(* of a job issues a GET for such a key or changes its file.               *)
C1_GoodNeverRefetched ==
    [][\A k \in AllKeys :
          GoodFile(k) =>
              /\ store'[k] = store[k]
              /\ fetches'[k] <= fetches[k]
              /\ \A req \in inflight' : req.key = k => req \in inflight]_vars

(* A run with redownloadBlocked set went past a Good tile without a GET. *)
C1_Witness ==
    /\ job.redownload
    /\ run = 2
    /\ \E i \in 1 .. Len(results) :
          /\ ~results[i].fetched
          /\ GoodFile(results[i].key)
          /\ fetches[results[i].key] = 0

(* C2: when the previous run of the job fetched every tile with Success,   *)
(* a run of the same job without redownloadBlocked issues no HTTP request  *)
(* and returns the skipped-good result for every tile ("skipped"; True in  *)
(* the two variants that return a bool).                                   *)
C2_SecondRunIdle ==
    (prevClean /\ ~job.redownload) =>
        /\ NoRequests
        /\ \A i \in 1 .. Len(results) :
              /\ ~results[i].fetched
              /\ results[i].status \in {"skipped", "True"}
              /\ job.variant \in {"stream", "uk"} => results[i].status = "skipped"
        /\ pc = "done" => Len(results) = Iterations

(* The second run of a streamed job of two tiles has ended after a first   *)
(* run of two Successes.                                                   *)
C2_Witness ==
    /\ prevClean
    /\ ~job.redownload
    /\ job.variant = "stream"
    /\ run = 2
    /\ pc = "done"
    /\ Len(results) = 2
    /\ stats["skipped"] = 2

(* C3: for a tile whose stored file has exactly BLOCKED_TILE_SIZE bytes, a *)
(* run without redownloadBlocked issues no request and reports the tile as *)
(* skipped-blocked, and a run with redownloadBlocked set fetches it: a GET *)
(* in flight for a blocked file belongs to a run with the flag, and a      *)
(* blocked file left by an earlier run that this run went past without a   *)
(* GET belongs to a run without the flag, reported "blocked" (False by the *)
(* abingdon script).                                                       *)
C3_BlockedPolicy ==
    /\ \A req \in inflight : BlockedFile(req.key) => job.redownload
    /\ \A i \in 1 .. Len(results) :
          (/\ ~results[i].fetched
           /\ BlockedFile(results[i].key)
           /\ fetches[results[i].key] = 0) =>
              /\ ~job.redownload
              /\ results[i].status \in {"blocked", "False"}

(* C4: on every download path a 200 whose body has exactly                 *)
(* BLOCKED_TILE_SIZE bytes is returned as Blocked ("blocked"; False where  *)
(* a bool is returned) and never as Success, and a 200 whose body has      *)
(* BLOCKED_TILE_SIZE - 1 or BLOCKED_TILE_SIZE + 1 bytes is returned as     *)
(* Success ("success"; True).                                              *)
C4_ExactSizeDetection ==
    \A i \in 1 .. Len(results) :
        (results[i].fetched /\ results[i].wrote # NoSize) =>
            IF results[i].wrote = BLOCKED_TILE_SIZE
            THEN results[i].status \in {"blocked", "False"}
            ELSE /\ results[i].wrote \in {BLOCKED_TILE_SIZE - 1, BLOCKED_TILE_SIZE + 1}
                 /\ results[i].status \in {"success", "True"}

(* C5: a job has at most one HTTP request in flight at any time, on the    *)
(* streaming path and on the path of POST /tiles/download alike.           *)
C5_OneRequestInFlight == Cardinality(inflight) <= 1

(* C6: every HTTP request of a job is issued after a delay of its own of   *)
(* at least minDelay, so at least minDelay lies between two consecutive    *)
(* requests of the job.                                                    *)
C6_DelayBeforeEveryRequest ==
    \A req \in inflight :
        /\ req.delay >= MinDelay(job.variant)
        /\ req.gap >= MinDelay(job.variant)

PassOf(i) == ((i - 1) \div Len(Tiles(job))) + 1
TileOf(i) == ((i - 1) % Len(Tiles(job))) + 1

(* The pass the counters in stats belong to: the pass being worked on once *)
(* its fresh dict was built, else the pass of the last result.             *)
StatsPass ==
    IF pc \in {"sleep", "get"} THEN pi
    ELSE IF Len(results) = 0 THEN 0 ELSE PassOf(Len(results))

CountIn(pass, status) ==
    Cardinality({i \in 1 .. Len(results) :
                    PassOf(i) = pass /\ results[i].status = status})

ProgressEvents == SelectSeq(events, LAMBDA e : e.type = "progress")

(* C7: a tile that ends Failed, Timeout, Error or Blocked does not abort   *)
(* the job.  The i-th result of a run is the result of the i-th tile of    *)
(* the loop, the loop stands at the tile after the last result whatever    *)
(* that result was, and a finished job has a result for every tile; the    *)
(* counters (stream, uk) count every result of the pass under its status,  *)
(* the abingdon totals count every result, and the stream has yielded one  *)
(* progress event per result, with the result's status.                    *)
C7_FailuresDoNotAbort ==
    LET n == Len(results)
        t == Len(Tiles(job))
    IN  /\ \A i \in 1 .. n : results[i].key = KeyAt(job, PassOf(i), TileOf(i))
        /\ pc = "done" => n = Iterations
        /\ pc \in {"loop", "sleep", "get", "gather"} =>
              /\ pi <= Len(Passes(job))
              /\ n = (pi - 1) * t + (ti - 1)
        /\ job.variant \in {"stream", "uk"} =>
              \A s \in {"success", "skipped", "blocked", "failed", "timeout", "error"} :
                  stats[s] = CountIn(StatsPass, s)
        /\ job.variant = "abingdon" =>
              /\ stats["total_downloaded"] =
                    Cardinality({i \in 1 .. n : results[i].status = "True"})
              /\ stats["total_blocked"] =
                    Cardinality({i \in 1 .. n : results[i].status = "False"})
        /\ job.variant = "stream" =>
              /\ Len(ProgressEvents) = n
              /\ \A i \in 1 .. n :
                    /\ ProgressEvents[i].status = results[i].status
                    /\ ProgressEvents[i].completed = TileOf(i)
                    /\ <<ProgressEvents[i].layer, ProgressEvents[i].zoom,
                         ProgressEvents[i].tile_x, ProgressEvents[i].tile_y>>
                          = results[i].key

(* A streamed job of two tiles has ended: the first tile timed out, the    *)
(* second was then fetched and came back as the blocked placeholder.       *)
C7_Witness ==
    /\ job.variant = "stream"
    /\ pc = "done"
    /\ Len(results) = 2
    /\ results[1].status = "timeout"
    /\ results[2].status = "blocked"
    /\ results[2].fetched
    /\ stats["timeout"] = 1
    /\ stats["blocked"] = 1

(* C8: an unrecoverable Tile Store fault while persisting a tile moves the *)
(* streamed job to Failed and stops the tile loop: a result whose write    *)
(* raised is the last result of the run, and the job is then failed, not   *)
(* looping or done.                                                        *)
C8_StoreFaultFailsJob ==
    job.variant = "stream" =>
        \A i \in 1 .. Len(results) :
            results[i].fault =>
                /\ i = Len(results)
                /\ pc = "failed"

(* The three cases a reported result can stand for, or "other". *)
CaseOf(rec) ==
    IF ~rec.fetched
    THEN IF KnownLayer(rec.key[1]) THEN "stored" ELSE "other"
    ELSE IF rec.wrote = BLOCKED_TILE_SIZE THEN "placeholder"
    ELSE IF rec.wrote = NoSize THEN "broke"
    ELSE "other"

(* C9: the reported status tells apart a tile not fetched because it was   *)
(* stored, a tile fetched for which the server sent the blocked            *)
(* placeholder, and a tile fetched whose attempt broke: no two results of  *)
(* a run that stand for different ones of these cases carry the same       *)
(* status (the counters are keyed by the status).                          *)
C9_CasesDistinguished ==
    \A i, j \in 1 .. Len(results) :
        ( /\ CaseOf(results[i]) # "other"
          /\ CaseOf(results[j]) # "other"
          /\ CaseOf(results[i]) # CaseOf(results[j]) )
        => results[i].status # results[j].status

(* C10: on the paths that report a status per tile, a tile's file is       *)
(* written exactly when the tile's result is success or blocked, and then  *)
(* holds the size received; after any other result the file is as it was   *)
(* before the attempt.  No other file changes.                             *)
C10_WriteIffSuccessOrBlocked ==
    [][ (job.variant \in {"stream", "uk"} /\ Len(results') = Len(results) + 1) =>
            LET rec == results'[Len(results')]
            IN  /\ \A k \in AllKeys \ {rec.key} : store'[k] = store[k]
                /\ rec.key \in AllKeys =>
                      IF rec.fetched /\ rec.status \in {"success", "blocked"}
                      THEN store'[rec.key] = rec.size
                      ELSE store'[rec.key] = store[rec.key] ]_vars

(* C11: a reader of a tile key (classify, the existence test of a later    *)
(* job, GET /tiles/layer/z/x/y.png) never finds a zero-length or truncated *)
(* file, also after a write that was interrupted mid-way: every file in    *)
(* the store holds the complete body of some 200 answer.                   *)
C11_NoPartialFile ==
    \A k \in AllKeys : Stored(k) = Missing \/ Stored(k) \in BodySizes

(* C18: within one run of a job no tile is retried: for every tile key at  *)
(* most one GET is issued during the run, whatever the layer list.         *)
C18_NoRetryWithinRun ==
    \A k \in AllKeys : fetches[k] <= 1

LayersOf(j) == {j.layers[i] : i \in 1 .. Len(j.layers)}
ZoomsOf(j) == {j.zooms[i] : i \in 1 .. Len(j.zooms)}

(* C19: every GET a job issues and every file it writes is for a layer of  *)
(* the job's own layer list and a zoom of its zoom levels, for a job       *)
(* submitted through POST /tiles/download as well.                         *)
C19_OnlyRequestedLayers ==
    /\ \A req \in inflight :
          req.key[1] \in LayersOf(job) /\ req.key[2] \in ZoomsOf(job)
    /\ \A k \in AllKeys :
          fetches[k] > 0 => (k[1] \in LayersOf(job) /\ k[2] \in ZoomsOf(job))

(* C20: the counters carried by the i-th progress event of a streamed job  *)
(* are the job's running stats: each equals the number of tiles of the     *)
(* whole job, over all its layers and zoom levels, that have had that      *)
(* outcome among the first i, so no counter decreases from one progress    *)
(* event to the next.                                                      *)
C20_EventStatsAreRunningStats ==
    job.variant = "stream" =>
        \A i \in 1 .. Len(ProgressEvents) :
            /\ \A s \in {"success", "skipped", "blocked", "failed", "timeout", "error"} :
                  ProgressEvents[i].stats[s] =
                      Cardinality({n \in 1 .. i : results[n].status = s})
            /\ i > 1 =>
                  \A s \in {"success", "skipped", "blocked", "failed", "timeout", "error"} :
                      ProgressEvents[i].stats[s] >= ProgressEvents[i - 1].stats[s]

(* C12: when two jobs work on the same tile key concurrently the race is   *)
(* benign: once both have written the key in full, the file is what one of *)
(* them wrote, and when a writer reported success the file left in the     *)
(* store is a valid (Good) tile.                                           *)
C12_BenignRace ==
    \A i \in 1 .. Len(results) :
        ( /\ rival.pc = "done"
          /\ results[i].key = rival.key
          /\ results[i].wrote # NoSize
          /\ rival.wrote # NoSize ) =>
            /\ Stored(rival.key) \in {results[i].wrote, rival.wrote}
            /\ ("success" \in {results[i].status, rival.status}) => GoodFile(rival.key)

(* C13: cancellation takes effect only at the check that opens a tile      *)
(* iteration: a tile (its delay and its request) in progress when the      *)
(* caller of a streamed job went away is finished and its outcome          *)
(* recorded before the job stops, and no tile is started after it.         *)
C13_CancelOnlyBetweenTiles ==
    (job.variant = "stream" /\ pc = "cancelled") =>
        Len(results) = conn.at + (IF conn.mid THEN 1 ELSE 0)

(* C14: a streamed job is tied to its connection: once the caller is gone  *)
(* the job is cancelled and starts no further tile (at most the tile whose *)
(* delay or request was in progress is finished), and a job cancelled at   *)
(* once has no request left in flight.  A background job (POST) is never   *)
(* cancelled by the caller going away.                                     *)
C14_DisconnectPolicy ==
    /\ (job.variant = "stream" /\ conn.state # "open") =>
          /\ \/ pc = "cancelled"
             \/ conn.state = "lost" /\ pc \in {"sleep", "get"} /\ Len(results) = conn.at
          /\ Len(results) <= conn.at + (IF conn.mid THEN 1 ELSE 0)
          /\ conn.state = "closed" => inflight = {}
    /\ job.variant = "background" => pc # "cancelled"

(* The caller of a streamed job of two tiles went away while the GET of    *)
(* the first tile was in flight; the tile was finished, the send of its    *)
(* event failed and the job stopped with the second tile never started.    *)
C14_Witness ==
    /\ job.variant = "stream"
    /\ Iterations = 2
    /\ conn.state = "lost"
    /\ conn.at = 0
    /\ pc = "cancelled"
    /\ Len(results) = 1
    /\ results[1].fetched
    /\ \A k \in AllKeys : k # KeyAt(job, 1, 1) => fetches[k] = 0

(* C15: a job is Pending (idle), Running (in its loop) or in a terminal    *)
(* state (done, cancelled).  Running is entered only by the start of a new *)
(* job, a running job stays running or ends, and a job in a terminal state *)
(* changes neither its state nor its stats, results or events: only a new  *)
(* job (the next run) follows it.                                          *)
C15_JobStateMachine ==
    [][ LET Running == {"loop", "sleep", "get", "gather"}
            Terminal == {"done", "cancelled"}
        IN  /\ pc \in {"idle"} \cup Running \cup Terminal
            /\ (pc' \in Running /\ pc \notin Running) =>
                  (run' = run + 1 /\ pc' = "loop" /\ results' = <<>> /\ stats' = ZeroStats)
            /\ pc \in Running => (pc' \in Running \cup Terminal /\ run' = run)
            /\ (pc \in Terminal /\ run' = run) =>
                  (pc' = pc /\ stats' = stats /\ results' = results /\ events' = events)
      ]_vars

(* A streamed job has ended, a new job over the same area was started and  *)
(* was cancelled after its first tile.                                     *)
C15_Witness ==
    /\ job.variant = "stream"
    /\ run = 2
    /\ pc = "cancelled"
    /\ conn.state = "closed"
    /\ Len(results) = 1
    /\ Iterations = 2

(* C17: yielding a progress event never holds the job up: whenever a       *)
(* streamed job with an open connection stands between two tiles, it can   *)
(* start the next tile, whether the consumer is reading or not.            *)
C17_EmitNeverBlocks ==
    (job.variant = "stream" /\ pc = "loop" /\ conn.state = "open") => ENABLED TileStart

CompleteEvents == SelectSeq(events, LAMBDA e : e.type = "complete")

-----------------------------------------------------------------------------
(* Tile enumeration *)

TileSet == {tiling.tiles[i] : i \in 1 .. Len(tiling.tiles)}

(* C21: a tile is in the tile set of a circle area only if the distance    *)
(* from the tile's centre to the area's centre is at most the radius; this *)
(* holds for the tile set the streaming endpoint uses.                     *)
C21_StreamTilesWithinRadius ==
    tiling.by = "stream" =>
        \A tile \in TileSet :
            WithinRadius(tile, tiling.py, tiling.px, tiling.radius, tiling.zoom)

(* C22: every tile an enumeration lists has 0 <= x < 2^zoom and            *)
(* 0 <= y < 2^zoom, for every area and zoom level it accepts.              *)
C22_TileKeysInRange ==
    \A tile \in TileSet :
        /\ 0 <= tile[1] /\ tile[1] < 2 ^ tiling.zoom
        /\ 0 <= tile[2] /\ tile[2] < 2 ^ tiling.zoom

-----------------------------------------------------------------------------
(* WebSocketManager *)

(* C30: after any interleaving of connects and disconnects, two websockets *)
(* with the same client_id included, every websocket whose connect has     *)
(* returned and which has not disconnected is registered in                *)
(* active_connections under its client_id.                                 *)
C30_OpenSocketsRegistered ==
    \A s \in WebSockets :
        websockets[s].state = "open" => active_connections[websockets[s].client_id] = s

-----------------------------------------------------------------------------
(* The service's read endpoints over the tile directory *)

(* A file path: the directory names below the root and the file's stem. *)
download_single_tile_path(layer, zoom, x, y) == <<"/app/map-tiles", layer, zoom, x, y, ".png">>

(* TileDownloader: tile_dir / layer / str(z) / str(x) / "{y}.png". *)
tile_file(layer, z, x, y) == <<"/app/map-tiles", layer, z, x, y, ".png">>

(* The path with the two tile numbers in the order of the satellite URL. *)
get_tile_path_yx(layer, z, x, y) == <<"/app/map-tiles", layer, z, y, x, ".png">>

(* get_tile: the path it looks up. *)
get_tile_path(layer, z, x, y) == <<"/app/map-tiles", layer, z, x, y, ".png">>

(* The keys whose file the service's jobs keep at a path. *)
KeysAt(path) ==
    {k \in AllKeys : \/ download_single_tile_path(k[1], k[2], k[3], k[4]) = path
                     \/ tile_file(k[1], k[2], k[3], k[4]) = path}

(* What the directory holds at a path. *)
FileAt(path) ==
    IF \E k \in KeysAt(path) : store[k] # Missing
    THEN store[CHOOSE k \in KeysAt(path) : store[k] # Missing]
    ELSE Missing

NotFound == 404

(* GET /tiles/{layer}/{z}/{x}/{y}.png: the file's bytes, or 404. *)
get_tile(layer, z, x, y) ==
    LET f == FileAt(get_tile_path(layer, z, x, y))
    IN  IF f = Missing THEN NotFound ELSE f

(* GET /tiles/status: per layer, the number of .png files below it. *)
get_tile_status ==
    [layer \in KnownLayers |-> Cardinality({k \in AllKeys : k[1] = layer /\ store[k] # Missing})]

GoodTiles(layer) == {k \in AllKeys : k[1] = layer /\ GoodFile(k)}

(* C23: GET /tiles/status reports, per layer, the number of stored Good    *)
(* tiles; a stored 7412-byte file is not counted.                          *)
C23_StatusCountsGoodTiles ==
    \A layer \in KnownLayers : get_tile_status[layer] = Cardinality(GoodTiles(layer))

(* C24: GET /tiles/{layer}/{z}/{x}/{y}.png returns the stored bytes of     *)
(* exactly that key and 404 for a key nothing is stored under, whatever    *)
(* the service's jobs have stored: the write paths and the read path send  *)
(* every key to the same file.                                             *)
C24_ServeRoundTrip ==
    \A k \in AllKeys :
        get_tile(k[1], k[2], k[3], k[4]) = (IF store[k] = Missing THEN NotFound ELSE store[k])

(* A job has stored tile x = 0, y = 1 of a layer and zoom level and not    *)
(* tile x = 1, y = 0: the first is served, the second is a 404.            *)
C24_Witness ==
    \E l \in KnownLayers, z \in ZoomLevels :
        /\ store[<<l, z, 0, 1>>] # Missing
        /\ get_tile(l, z, 0, 1) = store[<<l, z, 0, 1>>]
        /\ store[<<l, z, 1, 0>>] = Missing
        /\ get_tile(l, z, 1, 0) = NotFound

-----------------------------------------------------------------------------
(* Termination.  The service's jobs with a caller that stays and reads.    *)
(* The event loop resumes every coroutine that can run, a sleep ends, and  *)
(* every request is answered or times out (ClientTimeout(total=30) in the  *)
(* streamed job, timeout=30 in the background job): each step of a job     *)
(* that can be taken is taken in the end.                                  *)

Fairness ==
    /\ WF_vars(TileStart)
    /\ WF_vars(\E d \in STREAM_MIN_DELAY .. SCRIPT_MAX_DELAY : SleepDone(d))
    /\ WF_vars(\E r \in Responses, fault \in DiskFaults : Response(r, fault))
    /\ WF_vars(BatchLaunch)
    /\ WF_vars(\E req \in inflight, r \in Responses, fault \in DiskFaults :
                    BatchResponse(req, r, fault))
    /\ WF_vars(BatchDone)

SpecLive == InitConn /\ [][Next]_vars /\ Fairness

Running == pc \in {"loop", "sleep", "get", "gather"}

(* The job has ended having visited every tile of every pass once, in the  *)
(* order of the loops; a streamed job's last event is the complete event.  *)
Finished ==
    /\ pc = "done"
    /\ Len(results) = Iterations
    /\ \A i \in 1 .. Len(results) : results[i].key = KeyAt(job, PassOf(i), TileOf(i))
    /\ job.variant = "stream" => events[Len(events)].type = "complete"

-----------------------------------------------------------------------------
(* Progress accounting *)

Outcomes == {"success", "skipped", "blocked", "failed", "timeout", "error"}

RECURSIVE SumOver(_, _)
SumOver(st, names) ==
    IF names = {} THEN 0
    ELSE LET name == CHOOSE x \in names : TRUE
         IN  st[name] + SumOver(st, names \ {name})

(* C26: in every progress event the six counters add up to completed and   *)
(* 1 <= completed <= total_tiles; the last progress event of each          *)
(* (layer, zoom) pass has completed = total_tiles.  The same sum holds for *)
(* the counters of the UK script between two tiles of a pass.              *)
C26_CountersAddUp ==
    /\ job.variant = "stream" =>
          \A i \in 1 .. Len(ProgressEvents) :
              LET e == ProgressEvents[i]
                  lastOfPass == \/ i = Len(ProgressEvents) /\ pc = "done"
                                \/ i < Len(ProgressEvents) /\ PassOf(i + 1) # PassOf(i)
              IN  /\ SumOver(e.stats, Outcomes) = e.completed
                  /\ 1 <= e.completed
                  /\ e.completed <= e.total_tiles
                  /\ e.completed = TileOf(i)
                  /\ lastOfPass => e.completed = e.total_tiles
    /\ \A j \in 2 .. Len(events) :
          events[j].type = "layer_complete" =>
              /\ events[j - 1].type = "progress"
              /\ events[j - 1].completed = events[j - 1].total_tiles
    /\ (job.variant = "uk" /\ pc = "loop" /\ ti > 1) => SumOver(stats, Outcomes) = ti - 1

(* A streamed job over two tiles of one pass has ended, one tile skipped   *)
(* and one failed: the events count 1 of 2 and 2 of 2.                     *)
C26_Witness ==
    /\ job.variant = "stream"
    /\ pc = "done"
    /\ Len(ProgressEvents) = 2
    /\ ProgressEvents[1].completed = 1
    /\ ProgressEvents[2].completed = 2
    /\ ProgressEvents[2].total_tiles = 2
    /\ ProgressEvents[2].stats["skipped"] = 1
    /\ ProgressEvents[2].stats["failed"] = 1

-----------------------------------------------------------------------------
(* Good tiles over time *)

(* C27: the set of Good tiles never shrinks: under any sequence and any    *)
(* interleaving of runs, two requests working on the same key at once      *)
(* included, a key whose file is Good keeps a Good file; it is never       *)
(* replaced by the blocked placeholder.                                    *)
C27_GoodTilesMonotone ==
    [][\A k \in AllKeys : GoodFile(k) => Classify(store'[k]) = "Good"]_vars

-----------------------------------------------------------------------------
(* What a clean completion tells *)

(* C28: if a job completes with stats Failed + Blocked + Timeout +         *)
(* Error = 0, every tile of the job is present and Good (no other job      *)
(* writing to the store).                                                  *)
C28_CleanStatsAllGood ==
    ( /\ job.variant \in {"stream", "uk"}
      /\ pc = "done"
      /\ SumOver(stats, {"failed", "blocked", "timeout", "error"}) = 0 ) =>
        \A k \in JobKeys(job) : GoodFile(k)

-----------------------------------------------------------------------------
(* Batching of the background downloader *)

BatchMembers == DOMAIN batch \cup {req.idx : req \in inflight}

(* C29: for every tile count and every max_concurrent >= 1 the batching    *)
(* loop of the background downloader attempts each tile exactly once,      *)
(* awaits every batch, the final partial batch included, before the next   *)
(* zoom level starts, and no batch holds more than max_concurrent tiles.   *)
C29_Batching ==
    job.variant = "background" =>
        /\ pc = "gather" =>
              /\ BatchMembers = ti .. BatchEnd
              /\ Cardinality(BatchMembers) >= 1
              /\ Cardinality(BatchMembers) <= job.max_concurrent
        /\ pc = "loop" =>
              /\ inflight = {}
              /\ batch = <<>>
              /\ Len(results) = (pi - 1) * Len(Tiles(job)) + ti - 1
        /\ \A i \in 1 .. Len(results) : results[i].key = KeyAt(job, PassOf(i), TileOf(i))
        /\ \A k \in AllKeys : fetches[k] <= 1
        /\ pc = "done" =>
              /\ inflight = {}
              /\ Len(results) = Iterations

(* Four tiles in batches of three: the first batch is in the results and   *)
(* the final batch, of one tile, is being awaited.                         *)
C29_Witness ==
    /\ job.variant = "background"
    /\ job.max_concurrent = 3
    /\ Len(Tiles(job)) = 4
    /\ pc = "gather"
    /\ ti = 4
    /\ BatchMembers = {4}
    /\ Len(results) = 3

====
